---- MODULE Spec2Model ----
(***************************************************************************)
(* Monte Carlo Tree Search for Tic-Tac-Toe (src/mcts/mcts.py): the Board,  *)
(* the Node tree and the four phases of MonteCarloTreeSearch,              *)
(* with the UCT score of src/flaskapp/mcts/utils.py.                       *)
(***************************************************************************)
EXTENDS Integers, Sequences, FiniteSets, TLC

\* ------------------------------------------------------------- constants

\* Board.DEFAULT_BOARD_SIZE
DEFAULT_BOARD_SIZE == 3

\* Python's None where an integer may stand (game_state of a board in
\* progress, the parent of the root): apart from the cell values -1, 0, 1 and
\* from the node indexes 1, 2, ...
None == -2

\* Python's None where a (row, col) tuple may stand (the root's action).
NoAction == <<>>

\* The default of calculate_uct's parameter c.
DefaultC == 2

\* float("inf"), above every finite scaled UCT score.
Infinity == 1000000000

\* ---------------------------------------------------------------- bounds

\* Largest iteration budget passed to find_best_move.
MaxIter == 7

\* Largest number of empty cells of a board passed to find_best_move.
MaxEmpty == 3

\* Largest iteration budget of a call made with a seeded generator.
MaxBudget == 201

\* Largest number of empty cells of a board a rollout alone starts from.
MaxRolloutEmpty == 3

\* Largest seed given to the random module.
MaxSeed == 7

\* The most rows, and the most cells of a row, of a list given to Board().
MaxSide == 2

\* ----------------------------------------------------------------- state

VARIABLES
    board,          \* the grid of the Board object the caller passes in
    iterations,     \* the iteration budget the caller passes in
    nodes,          \* the Node objects, in creation order; nodes[1] is root_node
    it,             \* completed iterations of the for loop of find_best_move
    selected_node,  \* find_best_move's local selected_node (index into nodes)
    cur_board,      \* _rollout's local cur_board (a grid); the Board under test
    cur_player,     \* _rollout's local cur_player
    result,         \* find_best_move's local result
    calls,          \* calls made inside the for loop, per phase
    args,           \* arguments of the last Board.play_move call
    ret,            \* what the call returned, or None
    err,            \* the exception the call raised, or "none"
    pc,             \* position of the program
    rnd,            \* state of the generator of the random module; None
                    \* when the caller never seeded it
    seed,           \* the generator's state when the current call began
    history,        \* the calls the engine completed before the current one
    root            \* TTTMCTS: the engine's tree.root (index into nodes)

vars == <<board, iterations, nodes, it, selected_node, cur_board, cur_player,
          result, calls, args, ret, err, pc, rnd, seed, history, root>>

\* ----------------------------------------------------------------- Board

\* Board.state is a list of DEFAULT_BOARD_SIZE lists: here a tuple of tuples,
\* so that the Python element state[row][col] is b[row + 1][col + 1].

Idx == 0 .. (DEFAULT_BOARD_SIZE - 1)

Players == {1, -1}

\* The Python list with the elements f[1], ..., f[n], as a tuple.
ListOf(f) == <<>> \o f

At(b, row, col) == b[row + 1][col + 1]

NumCells == DEFAULT_BOARD_SIZE * DEFAULT_BOARD_SIZE

\* Cells in row-major order, as the nested comprehension enumerates them.
CellAt(k) == <<(k - 1) \div DEFAULT_BOARD_SIZE, (k - 1) % DEFAULT_BOARD_SIZE>>

CellList == ListOf([k \in 1 .. NumCells |-> CellAt(k)])

Cells == {CellAt(k) : k \in 1 .. NumCells}

Lines == [1 .. DEFAULT_BOARD_SIZE -> {-1, 0, 1}]

Grids == [1 .. DEFAULT_BOARD_SIZE -> Lines]

\* Board.get_empty_board_state
GetEmptyBoardState ==
    ListOf([i \in 1 .. DEFAULT_BOARD_SIZE |->
               ListOf([j \in 1 .. DEFAULT_BOARD_SIZE |-> 0])])

Abs(x) == IF x < 0 THEN -x ELSE x

RECURSIVE SumSeq(_)
SumSeq(s) == IF s = <<>> THEN 0 ELSE Head(s) + SumSeq(Tail(s))

\* A row, a column and the two diagonals as Python lists.
RowList(b, r) == b[r + 1]
ColumnList(b, c) ==
    ListOf([i \in 1 .. DEFAULT_BOARD_SIZE |-> At(b, i - 1, c)])
DownwardDiagonal(b) ==
    ListOf([i \in 1 .. DEFAULT_BOARD_SIZE |-> At(b, i - 1, i - 1)])
UpwardDiagonal(b) ==
    ListOf([i \in 1 .. DEFAULT_BOARD_SIZE |->
               At(b, DEFAULT_BOARD_SIZE - 1 - (i - 1), i - 1)])

\* abs(sum(line)) == len(line)
SumComplete(line) == Abs(SumSeq(line)) = Len(line)

\* 0 not in line and all(x == line[0] for x in line)
AllSame(line) ==
    /\ \A i \in 1 .. Len(line) : line[i] # 0
    /\ \A i \in 1 .. Len(line) : line[i] = line[1]

\* all(col for row in self.state for col in row)
AllFilled(b) == \A r \in Idx, c \in Idx : At(b, r, c) # 0

Min(S) == CHOOSE x \in S : \A y \in S : x <= y

\* game_state without the test of the upward diagonal.
GameState_NoUpwardDiagonal(b) ==
    LET rows == {r \in Idx : SumComplete(RowList(b, r))}
        cols == {c \in Idx : SumComplete(ColumnList(b, c))}
    IN  IF rows # {} THEN RowList(b, Min(rows))[1]
        ELSE IF cols # {} THEN ColumnList(b, Min(cols))[1]
        ELSE IF AllSame(DownwardDiagonal(b)) THEN DownwardDiagonal(b)[1]
        ELSE IF AllFilled(b) THEN 0
        ELSE None

\* Board.game_state: rows top down, then columns left to right, then the
\* downward and the upward diagonal, then the draw test.
GameState(b) ==
    LET rows == {r \in Idx : SumComplete(RowList(b, r))}
        cols == {c \in Idx : SumComplete(ColumnList(b, c))}
    IN  IF rows # {} THEN RowList(b, Min(rows))[1]
        ELSE IF cols # {} THEN ColumnList(b, Min(cols))[1]
        ELSE IF AllSame(DownwardDiagonal(b)) THEN DownwardDiagonal(b)[1]
        ELSE IF AllSame(UpwardDiagonal(b)) THEN UpwardDiagonal(b)[1]
        ELSE IF AllFilled(b) THEN 0
        ELSE None

\* is_complete that looks at the empty cells only.
IsComplete_FullOnly(b) == AllFilled(b)

\* Board.is_complete
IsComplete(b) == GameState(b) \in {-1, 0, 1}

\* get_available_actions without the test col == 0.
GetAvailableActions_AllCells(b) == CellList

\* get_available_actions that goes down the rows, then across the columns.
GetAvailableActions_ColumnMajor(b) ==
    SelectSeq(ListOf([k \in 1 .. NumCells |-> <<CellAt(k)[2], CellAt(k)[1]>>]),
              LAMBDA a : At(b, a[1], a[2]) = 0)

\* Board.get_available_actions: the cells holding 0, row-major.
GetAvailableActions(b) ==
    SelectSeq(CellList, LAMBDA a : At(b, a[1], a[2]) = 0)

\* Python list indexing: -len..-1 count from the end, anything else outside
\* 0..len-1 raises IndexError.
InRange(i) == i >= -DEFAULT_BOARD_SIZE /\ i < DEFAULT_BOARD_SIZE
PyIndex(i) == IF i < 0 THEN i + DEFAULT_BOARD_SIZE ELSE i

\* Board.play_move: self.state[row][col] = player. The exception raised
\* ("none" when it returns) and the grid afterwards.
PlayMoveErr(b, row, col, player) ==
    IF InRange(row) /\ InRange(col) THEN "none" ELSE "IndexError"

PlayMove(b, row, col, player) ==
    IF PlayMoveErr(b, row, col, player) = "none"
    THEN [b EXCEPT ![PyIndex(row) + 1][PyIndex(col) + 1] = player]
    ELSE b

\* ------------------------------------------------------------------ Node

\* Node.__init__
NewNode(b, player, parent) ==
    [board |-> b, parent |-> parent, player |-> player, children |-> <<>>,
     action |-> NoAction, w |-> 0, n |-> 0]

\* visited that is true of every node.
Visited_Always(node) == TRUE

\* Node.visited
Visited(node) == node.n > 0

\* Node.is_terminal
IsTerminal(node) == IsComplete(node.board)

\* ------------------------------------------------------------------- UCT

\* round(math.log(N) ** 0.5 * 10^8) for N = 1 .. 400.
SqrtLnE8 ==
    <<0, 83255461, 104814707, 117741002, 126863624, 133856620, 139495883,
      144202689, 148230381, 151742713, 154851389, 157635867, 160154593,
      162451757, 164561545, 166510922, 168321518, 170010934, 171593676,
      173081838, 174485599, 175813607, 177073268, 178270969, 179412258,
      180501982, 181544399, 182543269, 183501930, 184423355, 185310205,
      186164871, 186989507, 187786062, 188556306, 189301847, 190024154,
      190724570, 191404327, 192064558, 192706307, 193330536, 193938137,
      194529937, 195106701, 195669144, 196217930, 196753679, 197276970,
      197788347, 198288316, 198777356, 199255914, 199724411, 200183246,
      200632791, 201073401, 201505410, 201929132, 202344868, 202752900,
      203153498, 203546917, 203933398, 204313173, 204686461, 205053472,
      205414403, 205769446, 206118782, 206462584, 206801018, 207134242,
      207462408, 207785662, 208104141, 208417980, 208727306, 209032243,
      209332908, 209629415, 209921872, 210210385, 210495055, 210775977,
      211053247, 211326953, 211597184, 211864022, 212127548, 212387841,
      212644976, 212899025, 213150059, 213398146, 213643352, 213885740,
      214125372, 214362307, 214596603, 214828316, 215057500, 215284207,
      215508489, 215730395, 215949973, 216167269, 216382329, 216595196,
      216805912, 217014520, 217221060, 217425569, 217628088, 217828651,
      218027296, 218224058, 218418970, 218612065, 218803376, 218992935,
      219180771, 219366915, 219551396, 219734243, 219915482, 220095140,
      220273245, 220449822, 220624895, 220798490, 220970630, 221141338,
      221310637, 221478549, 221645097, 221810300, 221974181, 222136758,
      222298053, 222458083, 222616869, 222774429, 222930781, 223085942,
      223239930, 223392761, 223544454, 223695022, 223844484, 223992853,
      224140146, 224286378, 224431562, 224575714, 224718847, 224860975,
      225002112, 225142271, 225281464, 225419706, 225557007, 225693381,
      225828838, 225963392, 226097054, 226229835, 226361745, 226492797,
      226623001, 226752366, 226880904, 227008625, 227135539, 227261655,
      227386983, 227511532, 227635313, 227758333, 227880601, 228002128,
      228122921, 228242988, 228362338, 228480980, 228598921, 228716169,
      228832733, 228948619, 229063835, 229178390, 229292289, 229405540,
      229518151, 229630128, 229741478, 229852207, 229962324, 230071833,
      230180741, 230289055, 230396782, 230503926, 230610494, 230716492,
      230821926, 230926802, 231031125, 231134901, 231238135, 231340834,
      231443001, 231544643, 231645764, 231746371, 231846467, 231946057,
      232045148, 232143743, 232241847, 232339465, 232436602, 232533262,
      232629449, 232725168, 232820424, 232915221, 233009563, 233103454,
      233196898, 233289899, 233382462, 233474591, 233566289, 233657560,
      233748408, 233838836, 233928850, 234018451, 234107645, 234196433,
      234284821, 234372811, 234460407, 234547612, 234634429, 234720863,
      234806915, 234892590, 234977891, 235062820, 235147381, 235231577,
      235315411, 235398886, 235482005, 235564770, 235647185, 235729253,
      235810976, 235892357, 235973399, 236054105, 236134477, 236214517,
      236294230, 236373617, 236452680, 236531422, 236609847, 236687955,
      236765751, 236843235, 236920411, 236997281, 237073846, 237150111,
      237226076, 237301744, 237377118, 237452199, 237526989, 237601492,
      237675708, 237749641, 237823292, 237896663, 237969756, 238042574,
      238115118, 238187390, 238259392, 238331127, 238402596, 238473801,
      238544743, 238615426, 238685850, 238756017, 238825930, 238895589,
      238964998, 239034157, 239103068, 239171733, 239240153, 239308331,
      239376268, 239443966, 239511426, 239578649, 239645638, 239712394,
      239778919, 239845213, 239911280, 239977119, 240042733, 240108124,
      240173292, 240238238, 240302966, 240367475, 240431768, 240495846,
      240559709, 240623361, 240686801, 240750031, 240813053, 240875868,
      240938477, 241000882, 241063083, 241125082, 241186881, 241248480,
      241309882, 241371086, 241432094, 241492908, 241553529, 241613958,
      241674195, 241734243, 241794102, 241853774, 241913259, 241972559,
      242031675, 242090607, 242149358, 242207928, 242266319, 242324530,
      242382564, 242440421, 242498103, 242555610, 242612943, 242670104,
      242727094, 242783913, 242840562, 242897043, 242953356, 243009503,
      243065484, 243121300, 243176952, 243232442, 243287769, 243342935,
      243397942, 243452789, 243507477, 243562008, 243616383, 243670602,
      243724665, 243778575, 243832332, 243885936, 243939389, 243992691,
      244045843, 244098847, 244151702, 244204409, 244256970, 244309385,
      244361655, 244413781, 244465763, 244517602, 244569299, 244620855,
      244672271, 244723546, 244774683>>

\* round(n ** -0.5 * 10^8) for n = 1 .. 204.
InvSqrtE8 ==
    <<100000000, 70710678, 57735027, 50000000, 44721360, 40824829, 37796447,
      35355339, 33333333, 31622777, 30151134, 28867513, 27735010, 26726124,
      25819889, 25000000, 24253563, 23570226, 22941573, 22360680, 21821789,
      21320072, 20851441, 20412415, 20000000, 19611614, 19245009, 18898224,
      18569534, 18257419, 17960530, 17677670, 17407766, 17149859, 16903085,
      16666667, 16439899, 16222142, 16012815, 15811388, 15617376, 15430335,
      15249857, 15075567, 14907120, 14744196, 14586499, 14433757, 14285714,
      14142136, 14002801, 13867505, 13736056, 13608276, 13483997, 13363062,
      13245324, 13130643, 13018891, 12909944, 12803688, 12700013, 12598816,
      12500000, 12403473, 12309149, 12216944, 12126781, 12038585, 11952286,
      11867817, 11785113, 11704115, 11624764, 11547005, 11470787, 11396058,
      11322770, 11250879, 11180340, 11111111, 11043153, 10976426, 10910895,
      10846523, 10783277, 10721125, 10660036, 10599979, 10540926, 10482848,
      10425721, 10369517, 10314212, 10259784, 10206207, 10153462, 10101525,
      10050378, 10000000, 9950372, 9901475, 9853293, 9805807, 9759001,
      9712859, 9667365, 9622504, 9578263, 9534626, 9491580, 9449112, 9407209,
      9365858, 9325048, 9284767, 9245003, 9205746, 9166985, 9128709, 9090909,
      9053575, 9016696, 8980265, 8944272, 8908708, 8873565, 8838835, 8804509,
      8770580, 8737041, 8703883, 8671100, 8638684, 8606630, 8574929, 8543577,
      8512565, 8481889, 8451543, 8421519, 8391814, 8362420, 8333333, 8304548,
      8276059, 8247861, 8219949, 8192319, 8164966, 8137885, 8111071, 8084521,
      8058230, 8032193, 8006408, 7980869, 7955573, 7930516, 7905694, 7881104,
      7856742, 7832604, 7808688, 7784989, 7761505, 7738232, 7715167, 7692308,
      7669650, 7647191, 7624929, 7602859, 7580980, 7559289, 7537784, 7516460,
      7495317, 7474351, 7453560, 7432941, 7412493, 7392213, 7372098, 7352146,
      7332356, 7312724, 7293250, 7273930, 7254763, 7235746, 7216878, 7198158,
      7179582, 7161149, 7142857, 7124705, 7106691, 7088812, 7071068, 7053456,
      7035975, 7018624, 7001400>>

\* The product of two numbers in units of 10^-8, in the same units, computed
\* in base 10^4 to stay within 32 bits.
MulE8(a, b) ==
    LET a1 == a \div 10000
        a0 == a % 10000
        b1 == b \div 10000
        b0 == b % 10000
    IN  a1 * b1 + (a1 * b0 + a0 * b1) \div 10000

\* w / n in units of 10^-8, by long division in base 10^4.
DivE8(w, n) ==
    ((w * 10000) \div n) * 10000 + (((w * 10000) % n) * 10000) \div n

\* calculate_uct that scores an unvisited child 0 instead of infinity.
CalculateUct_NoInfinity(child_node, parent_node, c) ==
    IF child_node.n = 0 THEN 0
    ELSE DivE8(child_node.w, child_node.n)
         + c * MulE8(SqrtLnE8[parent_node.n], InvSqrtE8[child_node.n])

\* utils.calculate_uct in fixed point, in units of 10^-8;
\* (math.log(N) / n) ** 0.5 is computed as math.log(N) ** 0.5 * n ** -0.5.
\* For parent.n <= 45 the fixed-point scores of any two children are ordered,
\* and tie, exactly as the floating-point scores do; for larger parent.n they
\* do so whenever the floating-point scores are equal or differ by more than
\* 2 * 10^-7.
CalculateUct(child_node, parent_node, c) ==
    IF child_node.n = 0 THEN Infinity
    ELSE DivE8(child_node.w, child_node.n)
         + c * MulE8(SqrtLnE8[parent_node.n], InvSqrtE8[child_node.n])

\* max(..., key=...): the position of the first of the largest keys.
MaxFirst(keys) ==
    CHOOSE i \in 1 .. Len(keys) :
        /\ \A j \in 1 .. Len(keys) : keys[j] <= keys[i]
        /\ \A j \in 1 .. (i - 1) : keys[j] < keys[i]

\* ---------------------------------------------------------------- random

\* The generator of the random module, as a multiplicative congruential
\* generator: the state after one draw.
NextRandom(r) == (17 * r) % 8191

\* random.choice of a list of k elements: the indexes (from 0) it may return
\* when the generator's state is r.
Draws(r, k) == IF r = None THEN 0 .. (k - 1) ELSE {NextRandom(r) % k}

\* ------------------------------------------------- MonteCarloTreeSearch

\* _select: from root_node, descend to the child with the largest UCT
\* score until a node without children is reached.
RECURSIVE SelectFrom(_, _)
SelectFrom(ns, id) ==
    IF ns[id].children = <<>> THEN id
    ELSE LET children == ns[id].children
             uct == ListOf([i \in 1 .. Len(children) |->
                       CalculateUct(ns[children[i]], ns[id], DefaultC)])
         IN  SelectFrom(ns, children[MaxFirst(uct)])

Select(ns) == SelectFrom(ns, 1)

\* The nodes the while loop of _select goes through, from id down to the node
\* it returns.
RECURSIVE SelectPathFrom(_, _)
SelectPathFrom(ns, id) ==
    IF ns[id].children = <<>> THEN <<id>>
    ELSE LET children == ns[id].children
             uct == ListOf([i \in 1 .. Len(children) |->
                       CalculateUct(ns[children[i]], ns[id], DefaultC)])
         IN  <<id>> \o SelectPathFrom(ns, children[MaxFirst(uct)])

\* The calls calculate_uct(child_node, node) that _select makes, as pairs
\* <<child_node, node>>: one for every child of every node it goes through.
UctCalls(ns) ==
    LET path == SelectPathFrom(ns, 1)
    IN  UNION {{<<ns[path[k]].children[i], path[k]>> :
                   i \in 1 .. Len(ns[path[k]].children)} :
               k \in 1 .. Len(path)}

\* _expand: one new child per available action, appended in that order.
RECURSIVE ExpandActions(_, _, _)
ExpandActions(ns, id, actions) ==
    IF actions = <<>> THEN ns
    ELSE LET available_action == Head(actions)
             next_player == -ns[id].player
             new_board == PlayMove(ns[id].board, available_action[1],
                                   available_action[2], next_player)
             new_child_node ==
                 [NewNode(new_board, next_player, id)
                    EXCEPT !.action = available_action]
             added == Append([ns EXCEPT ![id].children =
                                            Append(@, Len(ns) + 1)],
                             new_child_node)
         IN  ExpandActions(added, id, Tail(actions))

\* _expand that goes on to expand the first new child as well.
Expand_TwoLevels(ns, id) ==
    LET once == ExpandActions(ns, id, GetAvailableActions(ns[id].board))
    IN  IF once[id].children = <<>> THEN once
        ELSE LET first == once[id].children[1]
             IN  ExpandActions(once, first,
                               GetAvailableActions(once[first].board))

\* _expand run twice on the same node.
Expand_Twice(ns, id) ==
    LET actions == GetAvailableActions(ns[id].board)
    IN  ExpandActions(ExpandActions(ns, id, actions), id, actions)

Expand(ns, id) == ExpandActions(ns, id, GetAvailableActions(ns[id].board))

\* _rollout on a terminal node: the value of that state.
TerminalResult(node) ==
    IF GameState(node.board) = 0 THEN 0
    ELSE IF node.player = GameState(node.board) THEN 1
    ELSE -1

\* The node's own value with the two players exchanged.
NodeValue_ForPlayerToMove(node, res) ==
    IF IsTerminal(node) THEN 1
    ELSE IF -node.player = res THEN 1
    ELSE IF res # 0 THEN -1
    ELSE 0

\* The node's own value when a terminal node counts as a loss.
NodeValue_TerminalLoses(node, res) ==
    IF IsTerminal(node) THEN -1
    ELSE IF node.player = res THEN 1
    ELSE IF res # 0 THEN -1
    ELSE 0

\* The node's own value counted twice.
NodeValue_Doubled(node, res) ==
    IF IsTerminal(node) THEN 2
    ELSE IF node.player = res THEN 2
    ELSE IF res # 0 THEN -2
    ELSE 0

\* _backpropagate, first part: n_i and w_i of the node itself.
NodeValue(node, res) ==
    IF IsTerminal(node) THEN 1
    ELSE IF node.player = res THEN 1
    ELSE IF res # 0 THEN -1
    ELSE 0

\* _backpropagate, the while loop over the parents up to the root.
RECURSIVE BackUp(_, _, _, _, _)
BackUp(ns, node, parent_node, sign, res) ==
    IF parent_node = None THEN ns
    ELSE LET counted == [ns EXCEPT ![parent_node].n = @ + 1]
         IN  IF res # 0
             THEN IF IsTerminal(node) \/ node.player = res
                  THEN BackUp([counted EXCEPT ![parent_node].w = @ + (1 * sign)],
                              node, ns[parent_node].parent, -sign, res)
                  ELSE BackUp([counted EXCEPT ![parent_node].w = @ + (1 * (-sign))],
                              node, ns[parent_node].parent, -sign, res)
             ELSE BackUp(counted, node, ns[parent_node].parent, sign, res)

\* _backpropagate that updates the node alone and never walks up.
Backpropagate_NodeOnly(ns, id, res) ==
    [ns EXCEPT ![id].n = @ + 1, ![id].w = @ + NodeValue(ns[id], res)]

\* _backpropagate whose walk gives every ancestor the same sign.
RECURSIVE BackUp_SameSign(_, _, _, _, _)
BackUp_SameSign(ns, node, parent_node, sign, res) ==
    IF parent_node = None THEN ns
    ELSE BackUp_SameSign(
             [ns EXCEPT ![parent_node].n = @ + 1,
                        ![parent_node].w = @ + (IF res # 0 THEN sign ELSE 0)],
             node, ns[parent_node].parent, sign, res)

Backpropagate_SameSign(ns, id, res) ==
    LET updated == [ns EXCEPT ![id].n = @ + 1,
                              ![id].w = @ + NodeValue(ns[id], res)]
        own == updated[id].w - ns[id].w
    IN  BackUp_SameSign(updated, updated[id], updated[id].parent, -own, res)

\* _backpropagate whose walk stops below the root.
Backpropagate_BelowRoot(ns, id, res) ==
    LET updated == [ns EXCEPT ![id].n = @ + 1,
                              ![id].w = @ + NodeValue(ns[id], res)]
        walked == BackUp(updated, updated[id], updated[id].parent, -1, res)
    IN  IF id = 1 THEN walked
        ELSE [walked EXCEPT ![1] = updated[1]]

\* _backpropagate that counts the visit on every node of the tree.
Backpropagate_AllNodes(ns, id, res) ==
    LET updated == [ns EXCEPT ![id].n = @ + 1,
                              ![id].w = @ + NodeValue(ns[id], res)]
        walked == BackUp(updated, updated[id], updated[id].parent, -1, res)
    IN  [k \in 1 .. Len(ns) |-> [walked[k] EXCEPT !.n = ns[k].n + 1]]

Backpropagate(ns, id, res) ==
    LET updated == [ns EXCEPT ![id].n = @ + 1,
                              ![id].w = @ + NodeValue(ns[id], res)]
    IN  BackUp(updated, updated[id], updated[id].parent, -1, res)

\* The child of the root with the largest w instead of the largest n.
GetChildNodeWithMaxVisits_ByScore(ns) ==
    LET children == ns[1].children
    IN  children[MaxFirst(ListOf([i \in 1 .. Len(children) |->
                                     ns[children[i]].w]))]

\* _get_child_node_with_max_visits (called with a root that has children)
GetChildNodeWithMaxVisits(ns) ==
    LET children == ns[1].children
    IN  children[MaxFirst(ListOf([i \in 1 .. Len(children) |->
                                     ns[children[i]].n]))]

\* ------------------------------------------------------------ the inputs

\* The grid b with the cells of S emptied.
Erase(b, S) ==
    ListOf([i \in 1 .. DEFAULT_BOARD_SIZE |->
               ListOf([j \in 1 .. DEFAULT_BOARD_SIZE |->
                          IF <<i - 1, j - 1>> \in S THEN 0 ELSE b[i][j]])])

NumEmpty(b) == Cardinality({a \in Cells : At(b, a[1], a[2]) = 0})

\* Full grids: a draw, a win of -1, and a grid with a line of each player.
FullGrids ==
    { << <<1, -1, 1>>, <<1, -1, -1>>, <<-1, 1, 1>> >>,
      << <<-1, -1, -1>>, <<1, 1, -1>>, <<1, -1, 1>> >>,
      << <<1, 1, 1>>, <<-1, -1, -1>>, <<1, -1, 1>> >> }

\* The boards handed to find_best_move and to play_move: the full grids with
\* up to MaxEmpty cells emptied.
RootBoards ==
    { Erase(g, S) : g \in FullGrids,
                    S \in {T \in SUBSET Cells : Cardinality(T) <= MaxEmpty} }

NoCalls == [select |-> 0, expand |-> 0, rollout |-> 0, backpropagate |-> 0]

\* ------------------------------------------------------- find_best_move

\* MonteCarloTreeSearch() constructed, a Board in the caller's hands.
Init ==
    /\ board \in RootBoards
    /\ iterations \in 0 .. MaxIter
    /\ nodes = <<>>
    /\ it = 0
    /\ selected_node = None
    /\ cur_board = GetEmptyBoardState
    /\ cur_player = None
    /\ result = None
    /\ calls = NoCalls
    /\ args = <<>>
    /\ ret = NoAction
    /\ err = "none"
    /\ pc = "idle"
    /\ rnd = None
    /\ seed = None
    /\ history = <<>>
    /\ root = None

\* find_best_move that goes on with the tree of the engine's previous call.
Start_KeepsTree ==
    /\ pc = "idle"
    /\ nodes' = IF nodes = <<>> THEN Expand(<<NewNode(board, 1, None)>>, 1)
                ELSE nodes
    /\ it' = 0
    /\ pc' = "loop"
    /\ UNCHANGED <<board, iterations, selected_node, cur_board, cur_player,
                   result, calls, args, ret, err, rnd, seed, history, root>>

\* find_best_move up to the for loop: the new root node, expanded.
Start ==
    /\ pc = "idle"
    /\ nodes' = Expand(<<NewNode(board, 1, None)>>, 1)
    /\ it' = 0
    /\ pc' = "loop"
    /\ UNCHANGED <<board, iterations, selected_node, cur_board, cur_player,
                   result, calls, args, ret, err, rnd,
                   seed, history, root>>

\* One pass of the for loop up to the while loop of _rollout: selection,
\* expansion of a visited non-terminal node, and the start of the rollout
\* (its result at once when the node is terminal).
SelectExpand ==
    /\ pc = "loop"
    /\ it < iterations
    /\ \E leaf \in {Select(nodes)} :
       \E expands \in {Visited(nodes[leaf]) /\ ~IsTerminal(nodes[leaf])} :
       \E expanded \in {IF expands THEN Expand(nodes, leaf) ELSE nodes} :
       \E sim \in {IF expands /\ expanded[leaf].children # <<>>
                   THEN expanded[leaf].children[1]
                   ELSE leaf} :
           /\ nodes' = expanded
           /\ selected_node' = sim
           /\ calls' = [calls EXCEPT !.select = @ + 1,
                                     !.expand = @ + (IF expands THEN 1 ELSE 0),
                                     !.rollout = @ + 1]
           /\ IF IsTerminal(expanded[sim])
              THEN /\ result' = TerminalResult(expanded[sim])
                   /\ pc' = "backprop"
                   /\ UNCHANGED <<cur_board, cur_player>>
              ELSE /\ cur_board' = expanded[sim].board
                   /\ cur_player' = expanded[sim].player
                   /\ pc' = "rollout"
                   /\ UNCHANGED result
    /\ UNCHANGED <<board, iterations, it, args, ret, err, rnd,
                   seed, history, root>>

\* The pass of the while loop of a _rollout that plays on node.board itself
\* instead of a deep copy.
RolloutMove_InPlace ==
    /\ pc = "rollout"
    /\ ~IsComplete(cur_board)
    /\ cur_player' = -cur_player
    /\ LET available_actions == GetAvailableActions(cur_board)
       IN  IF available_actions = <<>>
           THEN /\ err' = "IndexError"
                /\ pc' = "error"
                /\ UNCHANGED <<cur_board, rnd, nodes>>
           ELSE /\ \E i \in Draws(rnd, Len(available_actions)) :
                      cur_board' = PlayMove(cur_board,
                                            available_actions[i + 1][1],
                                            available_actions[i + 1][2],
                                            cur_player')
                /\ nodes' = [nodes EXCEPT ![selected_node].board = cur_board']
                /\ rnd' = IF rnd = None THEN None ELSE NextRandom(rnd)
                /\ UNCHANGED <<err, pc>>
    /\ UNCHANGED <<board, iterations, it, selected_node, result, calls,
                   args, ret, seed, history, root>>

\* One pass of the while loop of _rollout that plays a random move. An
\* unseeded generator may draw any index, a seeded one draws the next index of
\* its sequence.
RolloutMove ==
    /\ pc = "rollout"
    /\ ~IsComplete(cur_board)
    /\ cur_player' = -cur_player
    /\ LET available_actions == GetAvailableActions(cur_board)
       IN  IF available_actions = <<>>
           THEN \* random.choice of an empty list
                /\ err' = "IndexError"
                /\ pc' = "error"
                /\ UNCHANGED <<cur_board, rnd>>
           ELSE /\ \E i \in Draws(rnd, Len(available_actions)) :
                      cur_board' = PlayMove(cur_board,
                                            available_actions[i + 1][1],
                                            available_actions[i + 1][2],
                                            cur_player')
                /\ rnd' = IF rnd = None THEN None ELSE NextRandom(rnd)
                /\ UNCHANGED <<err, pc>>
    /\ UNCHANGED <<board, iterations, nodes, it, selected_node, result, calls,
                   args, ret, seed, history, root>>

\* The last pass of the while loop: the board is complete, _rollout returns
\* its game_state.
RolloutBreak ==
    /\ pc = "rollout"
    /\ IsComplete(cur_board)
    /\ cur_player' = -cur_player
    /\ result' = GameState(cur_board)
    /\ pc' = "backprop"
    /\ UNCHANGED <<board, iterations, nodes, it, selected_node, cur_board,
                   calls, args, ret, err, rnd,
                   seed, history, root>>

\* _backpropagate(selected_node, result), which ends the pass of the for loop.
BackpropagateStep ==
    /\ pc = "backprop"
    /\ nodes' = Backpropagate(nodes, selected_node, result)
    /\ calls' = [calls EXCEPT !.backpropagate = @ + 1]
    /\ it' = it + 1
    /\ pc' = "loop"
    /\ UNCHANGED <<board, iterations, selected_node, cur_board, cur_player,
                   result, args, ret, err, rnd,
                   seed, history, root>>

\* After the loop: the action of the most visited child of the root; max()
\* of an empty children list raises ValueError.
Return ==
    /\ pc = "loop"
    /\ it >= iterations
    /\ IF nodes[1].children = <<>>
       THEN /\ err' = "ValueError"
            /\ pc' = "error"
            /\ UNCHANGED ret
       ELSE /\ ret' = nodes[GetChildNodeWithMaxVisits(nodes)].action
            /\ pc' = "done"
            /\ UNCHANGED err
    /\ UNCHANGED <<board, iterations, nodes, it, selected_node, cur_board,
                   cur_player, result, calls, args, rnd,
                   seed, history, root>>

Next ==
    \/ Start
    \/ SelectExpand
    \/ RolloutMove
    \/ RolloutBreak
    \/ BackpropagateStep
    \/ Return

Spec == Init /\ [][Next]_vars

\* ------------------------------- find_best_move with a seeded generator

\* The two scenario boards, the player -1 to move.
ScenarioA == << <<-1, -1, 0>>, <<1, 1, 0>>, <<0, 0, 0>> >>
ScenarioB == << <<1, 1, 0>>, <<-1, 0, 0>>, <<0, 0, 0>> >>

ScenarioBoards == {ScenarioA, ScenarioB}

\* The seeds the caller gives to the random module.
Seeds == 0 .. MaxSeed

\* The iteration budgets of the seeded calls: the small ones and two large
\* ones.
Budgets == (0 .. MaxIter) \cup ((MaxBudget - 1) .. MaxBudget)

\* random.seed(s) by the caller, then MonteCarloTreeSearch() constructed.
InitSeeded ==
    /\ board \in ScenarioBoards
    /\ iterations \in Budgets
    /\ seed \in Seeds
    /\ rnd = seed
    /\ history = <<>>
    /\ root = None
    /\ nodes = <<>>
    /\ it = 0
    /\ selected_node = None
    /\ cur_board = GetEmptyBoardState
    /\ cur_player = None
    /\ result = None
    /\ calls = NoCalls
    /\ args = <<>>
    /\ ret = NoAction
    /\ err = "none"
    /\ pc = "idle"

\* The caller, after a call returned, about to call find_best_move again on
\* the same engine with the same board and budget: either it seeds the random
\* module as before the first call, or it leaves the generator as it is.
CallAgain ==
    /\ pc = "done"
    /\ history = <<>>
    /\ history' = Append(history, [seed |-> seed, action |-> ret,
                                   tree |-> nodes])
    /\ \E s \in {seed, rnd} :
          /\ seed' = s
          /\ rnd' = s
    /\ it' = 0
    /\ selected_node' = None
    /\ cur_board' = GetEmptyBoardState
    /\ cur_player' = None
    /\ result' = None
    /\ calls' = NoCalls
    /\ ret' = NoAction
    /\ pc' = "idle"
    /\ UNCHANGED <<board, iterations, nodes, args, err, root>>

NextSeeded ==
    \/ Next
    \/ CallAgain

SpecSeeded == InitSeeded /\ [][NextSeeded]_vars

\* ---------------------------------------------------------- _rollout alone

\* The boards in progress a rollout starts from.
RolloutBoards ==
    {g \in Grids : ~IsComplete(g) /\ NumEmpty(g) <= MaxRolloutEmpty}

\* _rollout(node) up to its while loop, on a node of either player whose
\* board is in progress: cur_board is a deep copy of node.board.
InitRollout ==
    /\ board \in RolloutBoards
    /\ \E player \in Players :
          /\ nodes = <<NewNode(board, player, None)>>
          /\ cur_player = player
    /\ selected_node = 1
    /\ cur_board = board
    /\ iterations = 1
    /\ it = 0
    /\ result = None
    /\ calls = NoCalls
    /\ args = <<>>
    /\ ret = NoAction
    /\ err = "none"
    /\ pc = "rollout"
    /\ rnd = None
    /\ seed = None
    /\ history = <<>>
    /\ root = None

NextRollout ==
    \/ RolloutMove
    \/ RolloutBreak

SpecRollout == InitRollout /\ [][NextRollout]_vars

\* ------------------------------------------------- Board.play_move alone

\* Arguments tried for row and col: every index Python accepts and one
\* beyond it on each side.
MoveRange == (-DEFAULT_BOARD_SIZE - 1) .. DEFAULT_BOARD_SIZE

InitBoard ==
    /\ cur_board \in RootBoards
    /\ board = GetEmptyBoardState
    /\ iterations = 0
    /\ nodes = <<>>
    /\ it = 0
    /\ selected_node = None
    /\ cur_player = None
    /\ result = None
    /\ calls = NoCalls
    /\ args = <<>>
    /\ ret = NoAction
    /\ err = "none"
    /\ pc = "board"
    /\ rnd = None
    /\ seed = None
    /\ history = <<>>
    /\ root = None

\* cur_board.play_move(row, col, player)
PlayMoveCall ==
    /\ pc = "board"
    /\ \E row \in MoveRange, col \in MoveRange, player \in Players :
          /\ args' = <<row, col, player>>
          /\ err' = PlayMoveErr(cur_board, row, col, player)
          /\ cur_board' = PlayMove(cur_board, row, col, player)
    /\ pc' = "played"
    /\ UNCHANGED <<board, iterations, nodes, it, selected_node, cur_player,
                   result, calls, ret, rnd,
                   seed, history, root>>

\* cur_board.get_available_actions(), after the move or after the
\* classification
AvailableCall ==
    /\ pc \in {"played", "checked"}
    /\ ret' = GetAvailableActions(cur_board)
    /\ pc' = "listed"
    /\ UNCHANGED <<board, iterations, nodes, it, selected_node, cur_board,
                   cur_player, result, calls, args, err, rnd,
                   seed, history, root>>

NextBoard == PlayMoveCall \/ AvailableCall

SpecBoard == InitBoard /\ [][NextBoard]_vars

\* ------------------------------------------------ Board.game_state alone

InitGrid ==
    /\ cur_board \in Grids
    /\ board = GetEmptyBoardState
    /\ iterations = 0
    /\ nodes = <<>>
    /\ it = 0
    /\ selected_node = None
    /\ cur_player = None
    /\ result = None
    /\ calls = NoCalls
    /\ args = <<>>
    /\ ret = NoAction
    /\ err = "none"
    /\ pc = "grid"
    /\ rnd = None
    /\ seed = None
    /\ history = <<>>
    /\ root = None

\* result = cur_board.game_state
GameStateCall ==
    /\ pc = "grid"
    /\ result' = GameState(cur_board)
    /\ pc' = "classified"
    /\ UNCHANGED <<board, iterations, nodes, it, selected_node, cur_board,
                   cur_player, calls, args, ret, err, rnd,
                   seed, history, root>>

\* ret = cur_board.is_complete
IsCompleteCall ==
    /\ pc = "classified"
    /\ ret' = IsComplete(cur_board)
    /\ pc' = "checked"
    /\ UNCHANGED <<board, iterations, nodes, it, selected_node, cur_board,
                   cur_player, result, calls, args, err, rnd,
                   seed, history, root>>

NextGrid == GameStateCall \/ IsCompleteCall \/ AvailableCall

SpecGrid == InitGrid /\ [][NextGrid]_vars

\* ----------------------------------------------------- Board() alone

\* The rows of a list given to Board(): lists of up to MaxSide cells.
StateRows ==
    UNION {[1 .. k -> {-1, 0, 1}] : k \in 0 .. MaxSide}

\* The lists given to Board() as state: up to MaxSide rows of any lengths,
\* the empty list included.
StateArguments ==
    UNION {[1 .. k -> StateRows] : k \in 0 .. MaxSide}

\* The caller about to construct a Board: args holds the arguments of the
\* call, the state or nothing (state is then None).
InitConstruct ==
    /\ args \in {<<>>} \cup {<<state>> : state \in StateArguments}
    /\ cur_board = GetEmptyBoardState
    /\ board = GetEmptyBoardState
    /\ iterations = 0
    /\ nodes = <<>>
    /\ it = 0
    /\ selected_node = None
    /\ cur_player = None
    /\ result = None
    /\ calls = NoCalls
    /\ ret = NoAction
    /\ err = "none"
    /\ pc = "new"
    /\ rnd = None
    /\ seed = None
    /\ history = <<>>
    /\ root = None

\* cur_board = Board(state): self.state is state itself unless state is None.
BoardInitCall ==
    /\ pc = "new"
    /\ cur_board' = IF args # <<>> THEN args[1] ELSE GetEmptyBoardState
    /\ pc' = "constructed"
    /\ UNCHANGED <<board, iterations, nodes, it, selected_node, cur_player,
                   result, calls, args, ret, err, rnd, seed, history, root>>

\* ret = cur_board.size: len(self.state[0]), an IndexError on the empty list.
SizeCall ==
    /\ pc = "constructed"
    /\ IF cur_board = <<>>
       THEN /\ err' = "IndexError"
            /\ pc' = "error"
            /\ UNCHANGED ret
       ELSE /\ ret' = Len(cur_board[1])
            /\ pc' = "sized"
            /\ UNCHANGED err
    /\ UNCHANGED <<board, iterations, nodes, it, selected_node, cur_board,
                   cur_player, result, calls, args, rnd, seed, history, root>>

NextConstruct == BoardInitCall \/ SizeCall

SpecConstruct == InitConstruct /\ [][NextConstruct]_vars

\* ------------------------------------------- the TTTMCTS variant: Board

\* TTTMCTS Board.game_state, first loop: the count of the cells of row i
\* that are not 0 and equal row[0] is len(row).
TTTMCTS_RowComplete(b, i) ==
    \A c \in Idx : At(b, i, c) # 0 /\ At(b, i, 0) = At(b, i, c)

\* TTTMCTS Board.game_state, second loop: the count of the cells
\* state[j][i] that are not 0 and equal row[0], the first cell of ROW i, is
\* len(row).
TTTMCTS_ColumnComplete(b, i) ==
    \A j \in Idx : At(b, j, i) # 0 /\ At(b, i, 0) = At(b, j, i)

\* The diagonal test of TTTMCTS Board.game_state: three equal cells, empty
\* ones included.
TTTMCTS_DiagonalEqual(b) ==
    \/ At(b, 0, 0) = At(b, 1, 1) /\ At(b, 1, 1) = At(b, 2, 2)
    \/ At(b, 0, 2) = At(b, 1, 1) /\ At(b, 1, 1) = At(b, 2, 0)

\* TTTMCTS Board.game_state: for i = 0, 1, 2 row i then column i, each
\* returning row[0]; then the diagonals, returning the centre cell; then the
\* draw test.
TTTMCTS_GameState(b) ==
    LET complete == {i \in Idx : \/ TTTMCTS_RowComplete(b, i)
                                 \/ TTTMCTS_ColumnComplete(b, i)}
    IN  IF complete # {} THEN At(b, Min(complete), 0)
        ELSE IF TTTMCTS_DiagonalEqual(b) THEN At(b, 1, 1)
        ELSE IF AllFilled(b) THEN 0
        ELSE None

\* TTTMCTS Board.is_finished
TTTMCTS_IsFinished(b) == TTTMCTS_GameState(b) \in {-1, 0, 1}

\* result = cur_board.game_state, on a TTTMCTS Board
TTTMCTS_GameStateCall ==
    /\ pc = "grid"
    /\ result' = TTTMCTS_GameState(cur_board)
    /\ pc' = "classified"
    /\ UNCHANGED <<board, iterations, nodes, it, selected_node, cur_board,
                   cur_player, calls, args, ret, err, rnd, seed, history,
                   root>>

\* ret = cur_board.is_finished, on a TTTMCTS Board
TTTMCTS_IsFinishedCall ==
    /\ pc = "classified"
    /\ ret' = TTTMCTS_IsFinished(cur_board)
    /\ pc' = "checked"
    /\ UNCHANGED <<board, iterations, nodes, it, selected_node, cur_board,
                   cur_player, result, calls, args, err, rnd, seed, history,
                   root>>

TTTMCTS_NextGrid == TTTMCTS_GameStateCall \/ TTTMCTS_IsFinishedCall

\* A TTTMCTS Board on any grid over {-1, 0, 1}, classified.
TTTMCTS_SpecGrid == InitGrid /\ [][TTTMCTS_NextGrid]_vars

\* --------------------------------- the TTTMCTS variant: the game loop

\* find_best_move(iterations=100) in TicTacToe.play
PlayIterations == 100

\* The nodes from id up to the node without parent, id first.
RECURSIVE PathToRoot(_, _)
PathToRoot(ns, id) ==
    IF id = None THEN <<>> ELSE <<id>> \o PathToRoot(ns, ns[id].parent)

\* TTTMCTS Node.__init__; action is set by expand.
TTTMCTS_NewNode(b, parent) ==
    [board |-> b, parent |-> parent, children |-> <<>>, action |-> NoAction,
     w |-> 0, n |-> 0]

\* TTTMCTS _calculate_ucb in fixed point, in units of 10^-8, as CalculateUct
\* but without the test child_node.n == 0: the division by child_node.n = 0
\* and the logarithm of parent_node.n = 0 fail.
TTTMCTS_CalculateUcb(child_node, parent_node, c) ==
    DivE8(child_node.w, child_node.n)
    + c * MulE8(SqrtLnE8[parent_node.n], InvSqrtE8[child_node.n])

\* TTTMCTS _get_leaf_node_with_max_ucb, from the node id down.
RECURSIVE TTTMCTS_GetLeafNodeWithMaxUcb(_, _)
TTTMCTS_GetLeafNodeWithMaxUcb(ns, id) ==
    IF ns[id].children = <<>> THEN id
    ELSE LET children == ns[id].children
             ucb == ListOf([i \in 1 .. Len(children) |->
                       TTTMCTS_CalculateUcb(ns[children[i]], ns[id],
                                            DefaultC)])
         IN  TTTMCTS_GetLeafNodeWithMaxUcb(ns, children[MaxFirst(ucb)])

\* TTTMCTS _get_child_node_with_max_visits: the first child of the root with
\* the largest n (None when the root has no child).
TTTMCTS_GetChildNodeWithMaxVisits(ns, r) ==
    IF ns[r].children = <<>> THEN None
    ELSE LET children == ns[r].children
         IN  children[MaxFirst(ListOf([i \in 1 .. Len(children) |->
                                          ns[children[i]].n]))]

\* TTTMCTS expand: one new child per available action of the node's board,
\* the move played by player on a deep copy of the board.
RECURSIVE TTTMCTS_ExpandActions(_, _, _, _)
TTTMCTS_ExpandActions(ns, id, actions, player) ==
    IF actions = <<>> THEN ns
    ELSE LET available_action == Head(actions)
             new_board == PlayMove(ns[id].board, available_action[1],
                                   available_action[2], player)
             new_child_node ==
                 [TTTMCTS_NewNode(new_board, id)
                    EXCEPT !.action = available_action]
             added == Append([ns EXCEPT ![id].children =
                                            Append(@, Len(ns) + 1)],
                             new_child_node)
         IN  TTTMCTS_ExpandActions(added, id, Tail(actions), player)

TTTMCTS_Expand(ns, id, player) ==
    TTTMCTS_ExpandActions(ns, id, GetAvailableActions(ns[id].board), player)

\* TTTMCTS simulate raises IndexError: random.choice of the empty list of
\* actions of a full board, in the first pass of its loop.
TTTMCTS_SimulateErr(node) == GetAvailableActions(node.board) = <<>>

\* TTTMCTS simulate: game_state is read from the node's own board before the
\* loop and never again, so the random moves, played on a deep copy until
\* that copy is finished (every pass fills a cell), change nothing: w moves
\* by the state of the node's board, n by 1.
TTTMCTS_Simulate(node) ==
    LET game_state == TTTMCTS_GameState(node.board)
    IN  [node EXCEPT !.w = IF game_state = 1 THEN @ + 1
                           ELSE IF game_state = -1 THEN @ - 1
                           ELSE @,
                     !.n = @ + 1]

\* for child_node in max_ucb_node.children: self.simulate(child_node)
TTTMCTS_SimulateChildren(ns, id) ==
    [k \in 1 .. Len(ns) |->
        IF ns[k].parent = id THEN TTTMCTS_Simulate(ns[k]) ELSE ns[k]]

\* The sums of n and of w over the nodes ids.
RECURSIVE SumN(_, _)
SumN(ns, ids) == IF ids = <<>> THEN 0 ELSE ns[Head(ids)].n + SumN(ns, Tail(ids))

RECURSIVE SumW(_, _)
SumW(ns, ids) == IF ids = <<>> THEN 0 ELSE ns[Head(ids)].w + SumW(ns, Tail(ids))

\* TTTMCTS backpropagate: the sums of n and w over the node's children are
\* added to the node, once more to a node without parent, and to every
\* node of its parent chain.
TTTMCTS_Backpropagate(ns, id) ==
    LET n_to_add == SumN(ns, ns[id].children)
        w_to_add == SumW(ns, ns[id].children)
        times == [k \in 1 .. Len(ns) |->
                     IF k = id THEN (IF ns[id].parent = None THEN 2 ELSE 1)
                     ELSE IF k \in {PathToRoot(ns, id)[j] :
                                       j \in 1 .. Len(PathToRoot(ns, id))}
                          THEN 1
                     ELSE 0]
    IN  [k \in 1 .. Len(ns) |->
            [ns[k] EXCEPT !.n = @ + times[k] * n_to_add,
                          !.w = @ + times[k] * w_to_add]]

\* The Node objects whose board is the Board object of the game: the first
\* root (Tree(board)) and every node the game made the root since
\* (root.board = board), that is the root and the nodes above it.
TTTMCTS_SharesBoard(ns, r) ==
    {PathToRoot(ns, r)[j] : j \in 1 .. Len(PathToRoot(ns, r))}

\* board.play_move(row, col, player) on the Board of the game, seen from the
\* nodes that hold that same object.
TTTMCTS_PlayOnGameBoard(ns, r, b) ==
    [k \in 1 .. Len(ns) |->
        IF k \in TTTMCTS_SharesBoard(ns, r) THEN [ns[k] EXCEPT !.board = b]
        ELSE ns[k]]

\* TicTacToe.play up to its first input: an empty Board and an engine whose
\* root node holds it, with cur_player -1.
TTTMCTS_Init ==
    /\ board = GetEmptyBoardState
    /\ nodes = <<TTTMCTS_NewNode(GetEmptyBoardState, None)>>
    /\ root = 1
    /\ cur_player = -1
    /\ iterations = PlayIterations
    /\ it = 0
    /\ selected_node = None
    /\ cur_board = GetEmptyBoardState
    /\ result = None
    /\ calls = NoCalls
    /\ args = <<>>
    /\ ret = NoAction
    /\ err = "none"
    /\ pc = "human"
    /\ rnd = None
    /\ seed = None
    /\ history = <<>>

\* The human enters the position of an empty cell (any other position is
\* asked again) and the move is played; find_best_move begins.
TTTMCTS_HumanMove ==
    /\ pc = "human"
    /\ \E player_position \in 1 .. NumCells :
          LET row == (player_position - 1) \div 3
              col == (player_position - 1) % 3
          IN  /\ At(board, row, col) = 0
              /\ args' = <<row, col>>
              /\ board' = PlayMove(board, row, col, 1)
    /\ nodes' = TTTMCTS_PlayOnGameBoard(nodes, root, board')
    /\ it' = 0
    /\ pc' = "search"
    /\ UNCHANGED <<iterations, selected_node, cur_board, cur_player, result,
                   calls, ret, err, rnd, seed, history, root>>

\* One pass of the for loop of TTTMCTS find_best_move: select, expand,
\* simulate every child, backpropagate, then the stopping condition.
TTTMCTS_Iteration ==
    /\ pc = "search"
    /\ it < iterations
    /\ \E max_ucb_node \in {TTTMCTS_GetLeafNodeWithMaxUcb(nodes, root)} :
       \E expanded \in {TTTMCTS_Expand(nodes, max_ucb_node, cur_player)} :
          /\ selected_node' = max_ucb_node
          /\ IF \E k \in 1 .. Len(expanded) :
                    /\ expanded[k].parent = max_ucb_node
                    /\ TTTMCTS_SimulateErr(expanded[k])
             THEN /\ nodes' = expanded
                  /\ err' = "IndexError"
                  /\ pc' = "error"
                  /\ UNCHANGED <<it, cur_player>>
             ELSE /\ nodes' = TTTMCTS_Backpropagate(
                                  TTTMCTS_SimulateChildren(expanded,
                                                           max_ucb_node),
                                  max_ucb_node)
                  /\ UNCHANGED err
                  /\ IF TTTMCTS_IsFinished(nodes[max_ucb_node].board)
                     THEN /\ pc' = "return"
                          /\ UNCHANGED <<it, cur_player>>
                     ELSE /\ cur_player' = -cur_player
                          /\ it' = it + 1
                          /\ pc' = IF it + 1 < iterations THEN "search"
                                   ELSE "return"
    /\ UNCHANGED <<board, iterations, cur_board, result, calls, args, ret,
                   rnd, seed, history, root>>

\* The end of TTTMCTS find_best_move: row, col and node of the most visited
\* child of the root; without a child, None.action raises AttributeError.
TTTMCTS_Return ==
    /\ pc = "return"
    /\ \E node_with_max_visits \in
             {TTTMCTS_GetChildNodeWithMaxVisits(nodes, root)} :
          IF node_with_max_visits = None
          THEN /\ err' = "AttributeError"
               /\ pc' = "error"
               /\ UNCHANGED ret
          ELSE /\ ret' = <<nodes[node_with_max_visits].action[1],
                           nodes[node_with_max_visits].action[2],
                           node_with_max_visits>>
               /\ pc' = "aimove"
               /\ UNCHANGED err
    /\ UNCHANGED <<board, iterations, nodes, it, selected_node, cur_board,
                   cur_player, result, calls, args, rnd, seed, history,
                   root>>

\* TicTacToe.play after find_best_move: the AI's move is played; the game
\* ends on a finished board, otherwise the node returned becomes the root
\* and is given the Board of the game.
TTTMCTS_AiMove ==
    /\ pc = "aimove"
    /\ board' = PlayMove(board, ret[1], ret[2], -1)
    /\ IF TTTMCTS_IsFinished(board')
       THEN /\ nodes' = TTTMCTS_PlayOnGameBoard(nodes, root, board')
            /\ pc' = "over"
            /\ UNCHANGED root
       ELSE /\ root' = ret[3]
            /\ nodes' = TTTMCTS_PlayOnGameBoard(nodes, ret[3], board')
            /\ pc' = "human"
    /\ UNCHANGED <<iterations, it, selected_node, cur_board, cur_player,
                   result, calls, args, ret, err, rnd, seed, history>>

TTTMCTS_Next ==
    \/ TTTMCTS_HumanMove
    \/ TTTMCTS_Iteration
    \/ TTTMCTS_Return
    \/ TTTMCTS_AiMove

TTTMCTS_Spec == TTTMCTS_Init /\ [][TTTMCTS_Next]_vars

\* ---------------------------------------------------------------- claims

Depth(ns, id) == Len(PathToRoot(ns, id)) - 1

\* The step that runs _backpropagate, and what it adds to a node's w and n.
BackpropagateTaken == pc = "backprop" /\ pc' = "loop"
AddedW(id) == nodes'[id].w - nodes[id].w
AddedN(id) == nodes'[id].n - nodes[id].n

\* The player who plays next from a node's board: _expand gives the node's
\* children the moves of -node.player, and _rollout's first random move is
\* made by -node.player.
PlayerToMove(node) == -node.player

\* The outcome of the playout of the current pass of the loop: game_state of
\* the simulated node's own board when it is terminal (_rollout then returns
\* 1, 0 or -1 relative to node.player), of the board the random moves ended
\* on otherwise.
Outcome ==
    IF IsTerminal(nodes[selected_node])
    THEN GameState(nodes[selected_node].board)
    ELSE GameState(cur_board)

\* p holds a full row, a full column or a full main diagonal of b.
OwnsLine(b, p) ==
    \/ \E r \in Idx : \A c \in Idx : At(b, r, c) = p
    \/ \E c \in Idx : \A r \in Idx : At(b, r, c) = p
    \/ \A i \in Idx : At(b, i, i) = p
    \/ \A i \in Idx : At(b, DEFAULT_BOARD_SIZE - 1 - i, i) = p

HasEmptyCell(b) == \E a \in Cells : At(b, a[1], a[2]) = 0

RootChildren == nodes[1].children

\* C1: on a board in progress, the action find_best_move returns is the
\* action of a child of the root whose visit count n is the largest among
\* the root's children.
C1_ReturnsMostVisited ==
    (pc = "done" /\ ~IsComplete(board)) =>
        \E i \in 1 .. Len(RootChildren) :
            /\ nodes[RootChildren[i]].action = ret
            /\ \A j \in 1 .. Len(RootChildren) :
                   nodes[RootChildren[j]].n <= nodes[RootChildren[i]].n

\* C1 witness: a call returned the action of a child that is not the first
\* one and has more visits than a sibling.
C1_Witness ==
    /\ pc = "done"
    /\ ~IsComplete(board)
    /\ Len(RootChildren) >= 2
    /\ nodes[RootChildren[1]].action # ret
    /\ \E j \in 1 .. Len(RootChildren) :
          /\ nodes[RootChildren[j]].action = ret
          /\ nodes[RootChildren[j]].n > nodes[RootChildren[1]].n

\* C2 (as claimed): on a board that is not in progress, find_best_move never
\* returns an action, and when it fails, it fails with TerminalRoot.
C2_TerminalRootRaised ==
    IsComplete(board) =>
        /\ pc # "done"
        /\ pc = "error" => err = "TerminalRoot"

\* C3 (as claimed): play_move on a non-empty cell or outside the grid raises
\* IllegalMove and leaves the grid as it was.
C3_IllegalMoveRaised ==
    [][(pc = "board" /\ pc' = "played"
        /\ (\/ args'[1] \notin Idx
            \/ args'[2] \notin Idx
            \/ At(cur_board, args'[1], args'[2]) # 0))
       => (err' = "IllegalMove" /\ cur_board' = cur_board)]_vars

C5_Classification ==
    /\ pc \in {"classified", "checked"} =>
          /\ \A p \in Players : (result = p) <=> OwnsLine(cur_board, p)
          /\ (result = 0) <=> (/\ \A p \in Players : ~OwnsLine(cur_board, p)
                               /\ ~HasEmptyCell(cur_board))
          /\ (result = None) <=> (/\ \A p \in Players : ~OwnsLine(cur_board, p)
                                  /\ HasEmptyCell(cur_board))
    /\ pc = "checked" => (ret <=> result # None)

\* C5 (amended): game_state returns a player exactly when some player holds
\* a full line, the player returned holds a full line, and it is p when p
\* is the only player holding one; 0 exactly when there is no full line and
\* no empty cell; None otherwise; is_complete is true exactly when
\* game_state is not None.
C5_ClassificationAmended ==
    /\ pc \in {"classified", "checked"} =>
          /\ (result \in Players) <=> (\E p \in Players : OwnsLine(cur_board, p))
          /\ \A p \in Players : (result = p) => OwnsLine(cur_board, p)
          /\ \A p \in Players :
                (OwnsLine(cur_board, p) /\ ~OwnsLine(cur_board, -p)) => result = p
          /\ (result = 0) <=> (/\ \A p \in Players : ~OwnsLine(cur_board, p)
                               /\ ~HasEmptyCell(cur_board))
          /\ (result = None) <=> (/\ \A p \in Players : ~OwnsLine(cur_board, p)
                                  /\ HasEmptyCell(cur_board))
    /\ pc = "checked" => (ret <=> result # None)

\* C5 witness: a grid on which both players hold a full line has been
\* classified as a win of -1 and as complete.
C5_Witness ==
    /\ pc = "checked"
    /\ OwnsLine(cur_board, 1)
    /\ OwnsLine(cur_board, -1)
    /\ result = -1
    /\ ret = TRUE

\* C6: in a backpropagation of a decisive result the simulated node gets
\* +1 or -1, every node on the path up to the root gets the negation of
\* what its child on the path got, and every node on the path gets n + 1.
C6_SignAlternates ==
    [][(BackpropagateTaken /\ Outcome \in Players) =>
        LET path == PathToRoot(nodes, selected_node)
        IN  /\ AddedW(path[1]) \in {1, -1}
            /\ \A i \in 1 .. Len(path) : AddedN(path[i]) = 1
            /\ \A i \in 2 .. Len(path) :
                   AddedW(path[i]) = -AddedW(path[i - 1])]_vars

\* C6 witness: a decisive result has been backpropagated from a node that
\* has a parent, a grandparent and a great-grandparent.
C6_Witness ==
    /\ pc = "loop"
    /\ it >= 1
    /\ Outcome \in Players
    /\ Depth(nodes, selected_node) >= 3

C8_DrawAddsNothing ==
    [][(BackpropagateTaken /\ Outcome = 0) =>
        LET path == PathToRoot(nodes, selected_node)
        IN  \A i \in 1 .. Len(path) :
                AddedW(path[i]) = 0 /\ AddedN(path[i]) = 1]_vars

\* Nodes other than the root that have children.
ExpandedInLoop(ns) == {id \in 2 .. Len(ns) : ns[id].children # <<>>}

\* The counts of C9 in a state.
C9_Counts ==
    /\ pc = "loop" =>
          /\ it <= iterations
          /\ calls.select = it /\ calls.rollout = it
          /\ calls.backpropagate = it
          /\ nodes[1].n = it
    /\ pc \in {"rollout", "backprop"} =>
          /\ it < iterations
          /\ calls.select = it + 1 /\ calls.rollout = it + 1
          /\ calls.backpropagate = it
          /\ nodes[1].n = it
    /\ pc = "done" =>
          /\ it = iterations
          /\ calls.select = iterations /\ calls.rollout = iterations
          /\ calls.backpropagate = iterations
          /\ nodes[1].n = iterations
    /\ pc \in {"loop", "rollout", "backprop", "done"} =>
          /\ calls.expand <= calls.select
          /\ calls.expand = Cardinality(ExpandedInLoop(nodes))

\* C9: find_best_move makes exactly `iterations` passes of its loop, each
\* with one selection, at most one expansion, one rollout and one
\* backpropagation, so that the root's n is `iterations` when it returns.
C9_ExactIterations ==
    [][/\ C9_Counts'
       /\ calls'.expand - calls.expand \in {0, 1}
       /\ Cardinality(ExpandedInLoop(nodes'))
            - Cardinality(ExpandedInLoop(nodes)) \in {0, 1}
       /\ pc' = "done" => pc = "loop" /\ it = iterations]_vars

\* C9 witness: a call with a budget of at least 3 returned after expanding
\* in some passes and not in others.
C9_Witness ==
    /\ pc = "done"
    /\ iterations >= 3
    /\ calls.expand >= 1
    /\ calls.expand < iterations

\* C10: on a board in progress with an empty cell, the (row, col) that
\* find_best_move returns is an empty cell of the board passed in.
C10_ReturnsLegalAction ==
    (pc = "done" /\ HasEmptyCell(board) /\ ~IsComplete(board)) =>
        /\ ret \in Cells
        /\ At(board, ret[1], ret[2]) = 0

\* C10 witness: a call on a board in progress with at least two empty
\* cells returned a cell that is not the first empty one.
C10_Witness ==
    /\ pc = "done"
    /\ ~IsComplete(board)
    /\ NumEmpty(board) >= 2
    /\ iterations >= 1
    /\ ret \in Cells
    /\ ret # GetAvailableActions(board)[1]

C12_ScenarioB ==
    (pc = "done" /\ board = ScenarioB /\ iterations >= 200) =>
        ret = <<0, 2>>

\* The positions in the root's children list of the children with the
\* largest visit count, and among these of those with the largest mean w / n
\* (children with equal n compare by w).
MostVisited ==
    {i \in 1 .. Len(RootChildren) :
        \A j \in 1 .. Len(RootChildren) :
            nodes[RootChildren[j]].n <= nodes[RootChildren[i]].n}

BestMean ==
    {i \in MostVisited :
        \A j \in MostVisited :
            nodes[RootChildren[j]].w <= nodes[RootChildren[i]].w}

\* C13: when several children of the root share the largest visit count,
\* find_best_move returns the action of the one with the larger mean w / n,
\* and among equal means that of the first in row-major order.
C13_TieBreakByMean ==
    pc = "done" => ret = nodes[RootChildren[Min(BestMean)]].action

\* C14: between the passes of the loop, at every node with children, no child
\* has been visited twice while a sibling is still unvisited, and the visited
\* children are the first ones of the children list (the first visits go
\* down the list, which is in row-major order of the actions).
C14_UnvisitedFirst ==
    pc = "loop" =>
        \A id \in 1 .. Len(nodes) :
            LET children == nodes[id].children
            IN  \A i \in 1 .. Len(children), j \in 1 .. Len(children) :
                    /\ nodes[children[i]].n >= 2 => nodes[children[j]].n >= 1
                    /\ (i < j /\ nodes[children[j]].n >= 1)
                           => nodes[children[i]].n >= 1

\* C14 witness: between two passes, a node below the root has its first
\* child visited and its second child still unvisited, while a child of the
\* root has been visited twice.
C14_Witness ==
    /\ pc = "loop"
    /\ \E id \in 2 .. Len(nodes) :
          /\ Len(nodes[id].children) >= 2
          /\ nodes[nodes[id].children[1]].n = 1
          /\ nodes[nodes[id].children[2]].n = 0
    /\ \E i \in 1 .. Len(RootChildren) : nodes[RootChildren[i]].n >= 2

C16_SameSeedSameAction ==
    (pc = "done" /\ history # <<>> /\ history[1].seed = seed) =>
        ret = history[1].action

\* C16 witness: a second call with a budget of at least 200 on the
\* Scenario B board, begun with the generator in the state in which the
\* first call began, returned what the first call returned, and that is not
\* the first action of the board.
C16_Witness ==
    /\ pc = "done"
    /\ history # <<>>
    /\ history[1].seed = seed
    /\ board = ScenarioB
    /\ iterations >= 200
    /\ ret = history[1].action
    /\ ret # GetAvailableActions(board)[1]

\* C17: no step of find_best_move changes the grid of the caller's board,
\* which is the root node's board, and no step changes the grid of the board
\* of a node of the tree: every node keeps the grid it was created with.
C17_CopyOnWrite ==
    [][/\ board' = board
       /\ nodes # <<>> => nodes[1].board = board
       /\ \A id \in 1 .. Len(nodes) :
             /\ id <= Len(nodes')
             /\ nodes'[id].board = nodes[id].board]_vars

\* C17 witness: a playout with a random move has ended, from a node
\* created by an expansion inside the loop; the node's grid is still its
\* parent's grid with the node's action played, and the caller's grid is the
\* root's.
C17_Witness ==
    /\ pc = "backprop"
    /\ selected_node # None
    /\ selected_node > 1 + Len(RootChildren)
    /\ NumEmpty(nodes[selected_node].board) - NumEmpty(cur_board) >= 1
    /\ nodes[selected_node].board =
          PlayMove(nodes[nodes[selected_node].parent].board,
                   nodes[selected_node].action[1],
                   nodes[selected_node].action[2],
                   nodes[selected_node].player)
    /\ nodes[1].board = board

\* The random moves played so far in the current rollout: each fills one
\* empty cell of the copy of the node's board.
Played == NumEmpty(nodes[selected_node].board) - NumEmpty(cur_board)

\* The player of the next random move: the opponent of the node's mover
\* first, then in turns.
NextMover ==
    IF Played % 2 = 0 THEN -nodes[selected_node].player
    ELSE nodes[selected_node].player

\* C18: every pass of the loop of a rollout from a board in progress either
\* plays a random move or ends the rollout. A pass that moves finds the board
\* not terminal and an empty cell to choose from, and puts on one empty cell
\* the piece of the player whose turn it is, the opponent of the node's
\* mover first; it is one more move, and the moves never outnumber the empty
\* cells the board had. The pass that ends the rollout finds a terminal
\* board and returns its classification -1, 0 or 1.
C18_RolloutEnds ==
    [][pc = "rollout" =>
          /\ pc' # "error"
          /\ \/ /\ pc' = "rollout"
                /\ GameState(cur_board) = None
                /\ \E a \in Cells :
                      /\ At(cur_board, a[1], a[2]) = 0
                      /\ cur_board' =
                             PlayMove(cur_board, a[1], a[2], NextMover)
                /\ Played' = Played + 1
                /\ Played' <= NumEmpty(nodes[selected_node].board)
             \/ /\ pc' = "backprop"
                /\ cur_board' = cur_board
                /\ GameState(cur_board) \in {-1, 0, 1}
                /\ result' = GameState(cur_board)]_vars

\* C18 witness: a rollout ended after two random moves, the second of which
\* won the game for the node's mover while a cell was still empty.
C18_Witness ==
    /\ pc = "backprop"
    /\ Played = 2
    /\ HasEmptyCell(cur_board)
    /\ result = nodes[selected_node].player

\* The grid turned by 90 degrees, mirrored left to right, and with the two
\* players' labels exchanged.
Rotate(b) ==
    ListOf([i \in 1 .. DEFAULT_BOARD_SIZE |->
               ListOf([j \in 1 .. DEFAULT_BOARD_SIZE |->
                          b[DEFAULT_BOARD_SIZE + 1 - j][i]])])

Reflect(b) ==
    ListOf([i \in 1 .. DEFAULT_BOARD_SIZE |->
               ListOf([j \in 1 .. DEFAULT_BOARD_SIZE |->
                          b[i][DEFAULT_BOARD_SIZE + 1 - j]])])

SwapLabels(b) ==
    ListOf([i \in 1 .. DEFAULT_BOARD_SIZE |->
               ListOf([j \in 1 .. DEFAULT_BOARD_SIZE |-> -b[i][j]])])

\* The images of a grid under the rotations and reflections of the square.
Rotations(b) == {b, Rotate(b), Rotate(Rotate(b)), Rotate(Rotate(Rotate(b)))}

Symmetries(b) == Rotations(b) \cup {Reflect(g) : g \in Rotations(b)}

\* The outcome with the two players exchanged.
SwapOutcome(res) == IF res \in Players THEN -res ELSE res

\* C19: game_state returns the same outcome for a grid and for each of its
\* rotations and reflections, and for the grid with the players' labels
\* exchanged it returns the other player as the winner and leaves a draw or
\* a game in progress as it is.
C19_Symmetry ==
    pc = "classified" =>
        /\ \A g \in Symmetries(cur_board) : GameState(g) = result
        /\ GameState(SwapLabels(cur_board)) = SwapOutcome(result)

\* C19, amended: the same, with the rotations and reflections only for the
\* grids on which at most one player owns a full line.
C19_SymmetryOneOwner ==
    pc = "classified" =>
        /\ ~(OwnsLine(cur_board, 1) /\ OwnsLine(cur_board, -1)) =>
              \A g \in Symmetries(cur_board) : GameState(g) = result
        /\ GameState(SwapLabels(cur_board)) = SwapOutcome(result)

\* C19 witness: a grid with empty cells won by -1 on the upward diagonal,
\* which has eight different images, has been classified.
C19_Witness ==
    /\ pc = "classified"
    /\ result = -1
    /\ AllSame(UpwardDiagonal(cur_board))
    /\ HasEmptyCell(cur_board)
    /\ Cardinality(Symmetries(cur_board)) = 8

\* The place of a cell in row-major order.
RowMajor(a) == a[1] * DEFAULT_BOARD_SIZE + a[2]

\* C20: get_available_actions returns exactly the empty cells of the board,
\* each once, in row-major order, so that the actions returned and the cells
\* that are not empty together are the DEFAULT_BOARD_SIZE^2 cells.
C20_AvailableActions ==
    pc = "listed" =>
        /\ \A a \in Cells :
              At(cur_board, a[1], a[2]) = 0
                 <=> \E k \in 1 .. Len(ret) : ret[k] = a
        /\ \A k \in 1 .. Len(ret) : ret[k] \in Cells
        /\ \A k \in 1 .. Len(ret), l \in 1 .. Len(ret) :
              k < l => RowMajor(ret[k]) < RowMajor(ret[l])
        /\ Len(ret) + Cardinality({a \in Cells : At(cur_board, a[1], a[2]) # 0})
              = DEFAULT_BOARD_SIZE * DEFAULT_BOARD_SIZE

\* C20 witness: the actions of the grid [[0,1,0],[-1,0,1],[0,0,-1]] have been
\* listed, five of them in three rows.
C20_Witness ==
    /\ pc = "listed"
    /\ cur_board = << <<0, 1, 0>>, <<-1, 0, 1>>, <<0, 0, -1>> >>
    /\ ret = << <<0, 0>>, <<0, 2>>, <<1, 1>>, <<2, 0>>, <<2, 1>> >>

\* The list has as many rows as each of its rows has cells.
IsSquare(state) == \A i \in 1 .. Len(state) : Len(state[i]) = Len(state)

\* C21 (as claimed): Board(state) with a state that is not square or whose
\* rows differ in length raises MalformedBoard, so that no Board with such a
\* grid exists afterwards.
C21_MalformedBoardRaised ==
    (args # <<>> /\ ~IsSquare(args[1]) /\ pc # "new") =>
        (pc = "error" /\ err = "MalformedBoard")

\* C22: every node that has children has one child per empty cell of its own
\* board, in row-major order of the actions (hence pairwise distinct: no
\* node was expanded twice); a child's board is its parent's board with the
\* child's player on the cell of the child's action, and the child's player
\* is the negation of its parent's player.
C22_ExpansionInvariant ==
    \A id \in 1 .. Len(nodes) :
        LET children == nodes[id].children
        IN  children # <<>> =>
                /\ Len(children) = NumEmpty(nodes[id].board)
                /\ \A i \in 1 .. Len(children) :
                       LET child == nodes[children[i]]
                       IN  /\ child.parent = id
                           /\ child.action \in Cells
                           /\ At(nodes[id].board, child.action[1],
                                 child.action[2]) = 0
                           /\ child.player = -nodes[id].player
                           /\ child.board =
                                  [nodes[id].board
                                     EXCEPT ![child.action[1] + 1]
                                             [child.action[2] + 1] =
                                                child.player]
                /\ \A i \in 1 .. (Len(children) - 1) :
                       RowMajor(nodes[children[i]].action)
                           < RowMajor(nodes[children[i + 1]].action)

\* C22 witness: a node below the root was expanded in the loop and has two
\* children or more, and one of its children has been expanded as well.
C22_Witness ==
    \E id \in 2 .. Len(nodes) :
        /\ Len(nodes[id].children) >= 2
        /\ \E i \in 1 .. Len(nodes[id].children) :
               nodes[nodes[id].children[i]].children # <<>>

\* The step that runs one pass of the for loop from _select to the start of
\* _rollout.
SelectExpandTaken == pc = "loop" /\ pc' \in {"rollout", "backprop"}

C24_TerminalNodesChildless ==
    \A id \in 1 .. Len(nodes) :
        nodes[id].children # <<>> => ~IsComplete(nodes[id].board)

\* The step that runs find_best_move up to its for loop.
StartTaken == pc = "idle" /\ pc' = "loop"

\* C25: every call of find_best_move, a later call on the same engine
\* included, begins its loop on a tree of its own: a new root on the caller's
\* board with one new child per empty cell and no other node, every node
\* with n = 0 and w = 0, so that no node or statistic of an earlier call is
\* in it; and a call that begins with the board, the budget and the
\* generator of the earlier call ends with the very tree and action of the
\* earlier call.
C25_IndependentTree ==
    [][/\ StartTaken =>
             /\ Len(nodes') = 1 + NumEmpty(board)
             /\ nodes'[1].parent = None
             /\ nodes'[1].board = board
             /\ nodes'[1].children =
                    ListOf([i \in 1 .. NumEmpty(board) |-> i + 1])
             /\ \A id \in 1 .. Len(nodes') :
                    /\ nodes'[id].n = 0
                    /\ nodes'[id].w = 0
                    /\ id > 1 => /\ nodes'[id].parent = 1
                                 /\ nodes'[id].children = <<>>
       /\ (pc' = "done" /\ history' # <<>> /\ history'[1].seed = seed') =>
             /\ nodes' = history'[1].tree
             /\ ret' = history'[1].action]_vars

\* C25 witness: the first call on an engine left a tree of 200 visits or
\* more with nodes below the root's children, and the second call, begun
\* with the generator in the same state, has returned with a root of as
\* many visits, not more.
C25_Witness ==
    /\ pc = "done"
    /\ history # <<>>
    /\ history[1].seed = seed
    /\ Len(history[1].tree) > 1 + NumEmpty(board)
    /\ history[1].tree[1].n >= 200
    /\ nodes[1].n = history[1].tree[1].n

\* C26 (as claimed): on a board with an empty cell on which no player holds
\* a full row, column or diagonal (the empty board is one), game_state of
\* the TTTMCTS Board is None and is_finished is false.
C26_InProgressIsNone ==
    (/\ pc \in {"classified", "checked"}
     /\ HasEmptyCell(cur_board)
     /\ \A p \in Players : ~OwnsLine(cur_board, p)) =>
        /\ result = None
        /\ pc = "checked" => ret = FALSE

\* The nodes of ns from id up to the root, as a set.
PathNodes(ns, id) ==
    {PathToRoot(ns, id)[k] : k \in 1 .. Len(PathToRoot(ns, id))}

\* C27: within a pass of the for loop, n and w change in _backpropagate
\* only, and only on the nodes of the path from the simulated node up to the
\* root: each of them gets n + 1 and w changed by -1, 0 or 1, while n, w and
\* children of every other node stay as they are; the one expansion of the
\* pass gives children to the node selection stopped at, on that path, and to
\* no other node, and the new nodes start with n = 0, w = 0 and no children.
C27_OnePathPerIteration ==
    [][(pc \in {"loop", "rollout", "backprop"}) => (
          /\ Len(nodes') >= Len(nodes)
          /\ BackpropagateTaken =>
                /\ Len(nodes') = Len(nodes)
                /\ 1 \in PathNodes(nodes, selected_node)
                /\ \A id \in 1 .. Len(nodes) :
                       /\ nodes'[id].children = nodes[id].children
                       /\ IF id \in PathNodes(nodes, selected_node)
                          THEN AddedN(id) = 1 /\ AddedW(id) \in {-1, 0, 1}
                          ELSE AddedN(id) = 0 /\ AddedW(id) = 0
          /\ ~BackpropagateTaken =>
                /\ \A id \in 1 .. Len(nodes) :
                       /\ AddedN(id) = 0
                       /\ AddedW(id) = 0
                       /\ nodes'[id].children # nodes[id].children =>
                              /\ SelectExpandTaken
                              /\ nodes[id].children = <<>>
                              /\ id = nodes'[selected_node'].parent
                /\ \A id \in (Len(nodes) + 1) .. Len(nodes') :
                       /\ nodes'[id].children = <<>>
                       /\ nodes'[id].n = 0
                       /\ nodes'[id].w = 0)]_vars

\* C27 witness: a pass of the loop that expanded a node below the root has
\* ended; the simulated node, two levels below the root, has its one visit,
\* and a node off its path has visits of earlier passes.
C27_Witness ==
    /\ pc = "loop"
    /\ it >= 1
    /\ Depth(nodes, selected_node) = 2
    /\ nodes[selected_node].n = 1
    /\ nodes[selected_node].w # 0
    /\ \E id \in 2 .. Len(nodes) :
          /\ id \notin PathNodes(nodes, selected_node)
          /\ nodes[id].n >= 1

\* C28: in every state of a find_best_move call, every node of the tree has
\* n >= 0 and -n <= w <= n, and a node with n = 0 has w = 0.
C28_ValueWithinVisits ==
    \A id \in 1 .. Len(nodes) :
        /\ nodes[id].n >= 0
        /\ -nodes[id].n <= nodes[id].w
        /\ nodes[id].w <= nodes[id].n
        /\ nodes[id].n = 0 => nodes[id].w = 0

\* C28 witness: a tree with a node at each end of the range after two
\* visits or more (w = n and w = -n), a node strictly inside it and a node
\* never visited.
C28_Witness ==
    /\ \E id \in 1 .. Len(nodes) : nodes[id].n >= 2 /\ nodes[id].w = nodes[id].n
    /\ \E id \in 1 .. Len(nodes) : nodes[id].n >= 2 /\ nodes[id].w = -nodes[id].n
    /\ \E id \in 1 .. Len(nodes) :
          /\ nodes[id].n >= 2
          /\ Abs(nodes[id].w) < nodes[id].n
    /\ \E id \in 1 .. Len(nodes) : nodes[id].n = 0

\* C29 (as claimed): between iterations, the root's n is the sum of its
\* children's n and is the number of completed iterations; every other node
\* that has children has n equal to 1 plus the sum of its children's n; and
\* no node has a larger n than its parent.
C29_VisitCounts ==
    (pc = "loop" /\ nodes # <<>>) =>
        /\ nodes[1].n = SumN(nodes, nodes[1].children)
        /\ nodes[1].n = it
        /\ \A id \in 2 .. Len(nodes) :
               /\ nodes[id].children # <<>> =>
                      nodes[id].n = 1 + SumN(nodes, nodes[id].children)
               /\ nodes[id].n <= nodes[nodes[id].parent].n

\* C30 (as claimed): in the TTTMCTS game loop, whenever find_best_move has
\* returned (row, col) and the AI's move is about to be played, the cell
\* (row, col) of the board of the game is empty.
C30_AiMoveOnEmptyCell ==
    pc = "aimove" => At(board, ret[1], ret[2]) = 0

====
